---- MODULE Spec2Model ----
(***************************************************************************)
(* MongoBulkWriter (extensions/mongo/src/MongoBulkWriter.h): a bulk write  *)
(* is split into partitions, one build task per partition is posted to    *)
(* the io_service, every build task posts an execute task that acquires a  *)
(* pooled connection and submits the bulk command, and the caller gets a   *)
(* future composed over the per-partition futures.                         *)
(***************************************************************************)
EXTENDS Integers, Sequences, FiniteSets, TLC

\* ------------------------------------------------------------------ bounds
MaxCalls == 2
MaxWorkers == 2
MaxPool == 2
MaxLen == 4
MaxKey == 2
MaxDocs == 2
MaxLenShared == 3
MaxKeyShared == 1
MaxPartLen == 12
MaxPartWorkers == 8
MaxResults == 3
MaxNonZero == 1

Calls == 1..MaxCalls
Keys == 1..MaxKey

Kinds == {"InsertOne", "InsertMany", "Upsert", "Delete"}

VARIABLES
    numThreads,        \* m_pPool->numWorkerThreads()
    poolSize,          \* capacity of m_connectionPool (from the uri)
    m_connectionPool,  \* number of connections free in the pool
    db,                \* the collection: number of documents per key
    db0,               \* the collection when the engine was created
    request,           \* per call: the public operation and its entities
    partitions,        \* per call: the partitions handed to the build lambda
    m_futures,         \* per call: BulkWriteContext::m_futures (0 = empty slot)
    buildTask,         \* per call and partition: position of the build task
    pBulk,             \* per call and partition: the bulk command built
    execTask,          \* per call and partition: position of the execute task
    pPromise,          \* per call and partition: promise<BulkWriteResult>
    remaining,         \* per call: build tasks ParallelForPartition waits for
    handle,            \* per call: the composed future returned to the caller
    fatalLog,          \* per call and partition: CATAPULT_LOG(fatal) issued
    use_count,         \* shared_ptr<MongoBulkWriter>: strong references to the engine
    callerHolds,       \* the caller still holds the shared_ptr Create returned
    destroyed,         \* the last reference is gone: ~MongoBulkWriter has run
    partLen,           \* pure partitioning: length of the input
    partThreads,       \* pure partitioning: number of worker threads
    partResult,        \* pure partitioning: the partitions computed
    aggResults,        \* Aggregate on its own: the vector of results
    aggPermuted,       \* Aggregate on its own: the same results in another order
    aggReturn,         \* what Aggregate(aggResults) returned
    aggReturnPermuted  \* what Aggregate(aggPermuted) returned

vars == <<numThreads, poolSize, m_connectionPool, db, db0, request, partitions,
          m_futures, buildTask, pBulk, execTask, pPromise, remaining, handle,
          fatalLog, use_count, callerHolds, destroyed, partLen, partThreads, partResult, aggResults, aggPermuted,
          aggReturn, aggReturnPermuted>>

engineVars == <<numThreads, poolSize, m_connectionPool, db, request, partitions,
                m_futures, buildTask, pBulk, execTask, pPromise, remaining,
                handle, fatalLog, use_count, callerHolds, destroyed>>

refVars == <<use_count, callerHolds, destroyed>>

\* what no task of the engine changes
aggVars == <<aggResults, aggPermuted, aggReturn, aggReturnPermuted>>

fixedVars == <<db0, partLen, partThreads, partResult, aggVars>>

\* ----------------------------------------------------------------- helpers
Min(a, b) == IF a < b THEN a ELSE b

RECURSIVE SumSeq(_)
SumSeq(s) == IF s = <<>> THEN 0 ELSE Head(s) + SumSeq(Tail(s))

RECURSIVE SeqsUpTo(_, _)
SeqsUpTo(S, n) ==
    IF n = 0 THEN {<<>>}
    ELSE LET shorter == SeqsUpTo(S, n - 1)
         IN shorter \cup {Append(s, x) : s \in {t \in shorter : Len(t) = n - 1}, x \in S}

NoRequest == [kind |-> "none", entities |-> <<>>]

\* ------------------------------------------------------- BulkWriteResult
BulkWriteResult ==
    [NumInserted |-> 0, NumMatched |-> 0, NumModified |-> 0,
     NumDeleted |-> 0, NumUpserted |-> 0]

FromMongoResult(r) ==
    [NumInserted |-> r.inserted_count, NumMatched |-> r.matched_count,
     NumModified |-> r.modified_count, NumDeleted |-> r.deleted_count,
     NumUpserted |-> r.upserted_count]

\* the count fields are int32_t
Int32Max == 2147483647
Int32Min == (-Int32Max) - 1

Fits32(a, b) ==
    IF b >= 0 THEN a <= Int32Max - b ELSE a >= Int32Min - b

\* a += b on int32_t: the sum when it fits; when it does not, the behaviour
\* is undefined and a two's complement build leaves the sum modulo 2^32
Wrap32(a, b) ==
    IF b >= 0 THEN ((a - Int32Max) + (b - Int32Max)) - 2
    ELSE ((a + Int32Max) + (b + Int32Max)) + 2

Add32(a, b) == IF Fits32(a, b) THEN a + b ELSE Wrap32(a, b)

Fields == {"NumInserted", "NumMatched", "NumModified", "NumDeleted", "NumUpserted"}

\* the body of the loop of Aggregate
AddResult(aggregate, result) ==
    [NumInserted |-> Add32(aggregate.NumInserted, result.NumInserted),
     NumMatched |-> Add32(aggregate.NumMatched, result.NumMatched),
     NumModified |-> Add32(aggregate.NumModified, result.NumModified),
     NumDeleted |-> Add32(aggregate.NumDeleted, result.NumDeleted),
     NumUpserted |-> Add32(aggregate.NumUpserted, result.NumUpserted)]

RECURSIVE AggregateLoop(_, _)
AggregateLoop(aggregate, results) ==
    IF results = <<>> THEN aggregate
    ELSE AggregateLoop(AddResult(aggregate, Head(results)), Tail(results))

Aggregate(results) == AggregateLoop(BulkWriteResult, results)

\* some addition of the loop overflows: a build that checks signed overflow
\* aborts there
RECURSIVE LoopOverflows(_, _)
LoopOverflows(aggregate, results) ==
    IF results = <<>> THEN FALSE
    ELSE \/ \E f \in Fields : ~Fits32(aggregate[f], Head(results)[f])
         \/ LoopOverflows(AddResult(aggregate, Head(results)), Tail(results))

AggregateOverflows(results) == LoopOverflows(BulkWriteResult, results)

NotAggregated == [state |-> "none", value |-> BulkWriteResult]
Returned(value) == [state |-> "returned", value |-> value]
Aborted == [state |-> "aborted", value |-> BulkWriteResult]

\* what a call of Aggregate can end in
AggregateOutcomes(results) ==
    {Returned(Aggregate(results))}
        \cup (IF AggregateOverflows(results) THEN {Aborted} ELSE {})

\* ------------------------------------------------------------ promises
NoPromise == [state |-> "none", result |-> BulkWriteResult, what |-> <<>>]
\* the promise is created already resolved
ResolvedPromise == [state |-> "value", result |-> BulkWriteResult, what |-> <<>>]

PendingPromise == [state |-> "pending", result |-> BulkWriteResult, what |-> <<>>]
set_value(result) == [state |-> "value", result |-> result, what |-> <<>>]
\* the catch block resolves the promise with a default result
swallow_exception(what) == set_value(BulkWriteResult)

set_exception(what) == [state |-> "exception", result |-> BulkWriteResult, what |-> what]

IsReady(p) == p.state \in {"value", "exception"}

\* ---------------------------------------------------------- partitioning
\* ParallelForPartition: P = min(W, L) contiguous partitions, base size L / P,
\* the first L mod P partitions one element larger.
NumPartitions(L, W) == Min(W, L)

\* the last L mod P partitions are the larger ones
PartitionSizeLast(L, P, b) == (L \div P) + (IF b >= P - (L % P) THEN 1 ELSE 0)

PartitionSize(L, P, b) == (L \div P) + (IF b < L % P THEN 1 ELSE 0)

RECURSIVE PartitionStart(_, _, _)
PartitionStart(L, P, b) ==
    IF b = 0 THEN 0 ELSE PartitionStart(L, P, b - 1) + PartitionSize(L, P, b - 1)

ParallelForPartition(L, W) ==
    [k \in 1..NumPartitions(L, W) |->
        [startIndex |-> PartitionStart(L, NumPartitions(L, W), k - 1),
         size |-> PartitionSize(L, NumPartitions(L, W), k - 1),
         batchIndex |-> k - 1]]

\* --------------------------------------------------------------- mappers
\* an entity is identified by the key its filter selects; the one-to-many
\* mapper returns as many documents as the key's value
createDocument(entity, index) == [key |-> entity, index |-> index, n |-> 1]

createDocuments(entity, index) ==
    [j \in 1..entity |-> [key |-> entity, index |-> index, n |-> j]]

createFilter(entity) == entity

NoDoc == [key |-> 0, index |-> 0, n |-> 0]

insert_one(doc) == [op |-> "insert_one", filter |-> 0, doc |-> doc, upsert |-> FALSE]
replace_one(filter, doc, upsert) ==
    [op |-> "replace_one", filter |-> filter, doc |-> doc, upsert |-> upsert]
delete_many(filter) == [op |-> "delete_many", filter |-> filter, doc |-> NoDoc, upsert |-> FALSE]
delete_one(filter) == [op |-> "delete_one", filter |-> filter, doc |-> NoDoc, upsert |-> FALSE]

\* the appendOperation lambdas of bulkInsert (both), bulkUpsert and bulkDelete
InsertOneAppend(bulk, entity, index) ==
    Append(bulk, insert_one(createDocument(entity, index)))

\* the documents of an entity are appended last to first
InsertManyAppendReversed(bulk, entity, index) ==
    bulk \o [j \in 1..Len(createDocuments(entity, index)) |->
                insert_one(createDocuments(entity, index)[
                    Len(createDocuments(entity, index)) + 1 - j])]

InsertManyAppend(bulk, entity, index) ==
    bulk \o [j \in 1..Len(createDocuments(entity, index)) |->
                insert_one(createDocuments(entity, index)[j])]

\* replace_op.upsert(true) left out
NoUpsertFlag == FALSE

UpsertFlag == TRUE

UpsertAppend(bulk, entity, index) ==
    Append(bulk, replace_one(createFilter(entity), createDocument(entity, index), UpsertFlag))

DeleteOp(filter) == delete_many(filter)

DeleteAppend(bulk, entity, index) ==
    Append(bulk, DeleteOp(createFilter(entity)))

appendOperation(kind, bulk, entity, index) ==
    CASE kind = "InsertOne" -> InsertOneAppend(bulk, entity, index)
      [] kind = "InsertMany" -> InsertManyAppend(bulk, entity, index)
      [] kind = "Upsert" -> UpsertAppend(bulk, entity, index)
      [] kind = "Delete" -> DeleteAppend(bulk, entity, index)

\* the loop of the build lambda: iter runs from itBegin to itEnd, index from
\* startIndex, one appendOperation per entity
RECURSIVE BuildLoop(_, _, _, _, _, _)
BuildLoop(kind, entities, iter, itEnd, index, bulk) ==
    IF iter = itEnd THEN bulk
    ELSE BuildLoop(kind, entities, iter + 1, itEnd, index + 1,
                   appendOperation(kind, bulk, entities[iter], index))

\* the loop stops one entity short of itEnd
BuildBulkShort(kind, entities, part) ==
    BuildLoop(kind, entities, part.startIndex + 1, part.startIndex + part.size,
              part.startIndex, <<>>)

\* index starts at 0 in every partition
BuildBulkLocalIndex(kind, entities, part) ==
    BuildLoop(kind, entities, part.startIndex + 1, part.startIndex + part.size + 1,
              0, <<>>)

BuildBulk(kind, entities, part) ==
    BuildLoop(kind, entities, part.startIndex + 1, part.startIndex + part.size + 1,
              part.startIndex, <<>>)

\* -------------------------------------------------------------- database
\* the collection counts the documents per key; a bulk command is applied
\* operation by operation, in order; a replace that finds a document counts
\* it as matched and modified, one that finds none inserts when upsert is set
MongoResult ==
    [inserted_count |-> 0, matched_count |-> 0, modified_count |-> 0,
     deleted_count |-> 0, upserted_count |-> 0]

ApplyOp(st, o) ==
    CASE o.op = "insert_one" ->
            [db |-> [st.db EXCEPT ![o.doc.key] = @ + 1],
             result |-> [st.result EXCEPT !.inserted_count = @ + 1]]
      [] o.op = "replace_one" ->
            IF st.db[o.filter] > 0
            THEN [db |-> [st.db EXCEPT ![o.filter] = @ - 1, ![o.doc.key] = @ + 1],
                  result |-> [st.result EXCEPT !.matched_count = @ + 1,
                                               !.modified_count = @ + 1]]
            ELSE IF o.upsert
            THEN [db |-> [st.db EXCEPT ![o.doc.key] = @ + 1],
                  result |-> [st.result EXCEPT !.upserted_count = @ + 1]]
            ELSE st
      [] o.op = "delete_many" ->
            [db |-> [st.db EXCEPT ![o.filter] = 0],
             result |-> [st.result EXCEPT !.deleted_count = @ + st.db[o.filter]]]
      [] o.op = "delete_one" ->
            IF st.db[o.filter] > 0
            THEN [db |-> [st.db EXCEPT ![o.filter] = @ - 1],
                  result |-> [st.result EXCEPT !.deleted_count = @ + 1]]
            ELSE st

RECURSIVE ApplyBulk(_, _, _)
ApplyBulk(st, bulk, n) ==
    IF n = 0 THEN st
    ELSE ApplyOp(ApplyBulk(st, bulk, n - 1), bulk[n])

bulk_write(database, bulk, n) == ApplyBulk([db |-> database, result |-> MongoResult], bulk, n)

\* ------------------------------------------------- shared_from_this
\* the lambda captures the raw this pointer: the owners it adds are none
raw_this == Cardinality({})

\* references a lambda holds through its capture pThis = shared_from_this()
shared_from_this == 1

\* n copies of a lambda are made
Retain(n) ==
    /\ use_count' = use_count + n * shared_from_this
    /\ UNCHANGED <<callerHolds, destroyed>>

\* a lambda is destroyed; the engine is destroyed with its last reference
ReleaseLambda ==
    /\ use_count' = use_count - shared_from_this
    /\ destroyed' = (destroyed \/ use_count - shared_from_this = 0)
    /\ UNCHANGED callerHolds

\* ------------------------------------------------------------ io_service
Parts(c) == 1..Len(partitions[c])

BuildRunning == {"building", "dispatching"}
ExecRunning == {"acquiring", "holding", "logged"}

\* tasks that occupy a worker thread of the io_service; a free worker takes
\* any posted task
RunningTasks ==
    {t \in Calls \X (1..MaxLen) \X {"build", "exec"} :
        /\ t[2] \in Parts(t[1])
        /\ \/ t[3] = "build" /\ buildTask[t[1]][t[2]] \in BuildRunning
           \/ t[3] = "exec" /\ execTask[t[1]][t[2]] \in ExecRunning}

WorkerFree == Cardinality(RunningTasks) < numThreads

\* ---------------------------------------------------- composed future
\* compose(ParallelForPartition(...), aggregateFuture): the continuation runs
\* once every build task has run; when_all(m_futures) is ready once every
\* future stored in a slot is ready
when_all(futures, promises) ==
    \A s \in 1..Len(futures) : futures[s] # 0 /\ IsReady(promises[futures[s]])

DispatchComplete(left) == left = 0

\* the composition is ready with the first ready future
when_any(futures, promises) ==
    \E s \in 1..Len(futures) : futures[s] # 0 /\ IsReady(promises[futures[s]])

\* BulkWriteContext::aggregateFuture
aggregateFuture(futures, promises) == when_all(futures, promises)

compose(left, futures, promises) ==
    IF DispatchComplete(left) /\ aggregateFuture(futures, promises)
    THEN "ready" ELSE "pending"

\* ------------------------------------------------------------------ Init
NotPartitioned == [done |-> FALSE, partitions |-> <<>>, slots |-> 0]

InitDb(database) ==
    /\ numThreads \in 1..MaxWorkers
    /\ poolSize \in 1..MaxPool
    /\ m_connectionPool = poolSize
    /\ db = database
    /\ db0 = database
    /\ request = [c \in Calls |-> NoRequest]
    /\ partitions = [c \in Calls |-> <<>>]
    /\ m_futures = [c \in Calls |-> <<>>]
    /\ buildTask = [c \in Calls |-> <<>>]
    /\ pBulk = [c \in Calls |-> <<>>]
    /\ execTask = [c \in Calls |-> <<>>]
    /\ pPromise = [c \in Calls |-> <<>>]
    /\ remaining = [c \in Calls |-> 0]
    /\ handle = [c \in Calls |-> "none"]
    /\ fatalLog = [c \in Calls |-> <<>>]
    /\ use_count = 1
    /\ callerHolds = TRUE
    /\ destroyed = FALSE
    /\ partLen = 0
    /\ partThreads = 1
    /\ partResult = NotPartitioned
    /\ aggResults = <<>>
    /\ aggPermuted = <<>>
    /\ aggReturn = NotAggregated
    /\ aggReturnPermuted = NotAggregated

\* -------------------------------------------------------- public operations
\* bulkWrite<TContainer>(collectionName, entities, appendOperation)
\* the early return taken for a single entity too
IsEmptyOrSingle(size) == size <= 1

\* the early return never taken
NeverEmpty(size) == FALSE

IsEmpty(size) == size = 0

\* the context gets one slot per worker thread
NumOperationsPerThread(size, threads) == threads

NumOperations(size, threads) == Min(size, threads)

\* the partitions of a call: none for an empty container, else those of
\* ParallelForPartition(m_service, entities, numThreads, ...)
Partitions(size, threads) ==
    IF IsEmpty(size) THEN <<>> ELSE ParallelForPartition(size, threads)

\* the caller waits for a free worker thread and a free connection
CallWaitsForWorker(c) ==
    request[c] = NoRequest /\ WorkerFree /\ m_connectionPool > 0

\* call c has not been made yet; nothing in the body of bulkWrite waits
CallReturns(c) == request[c] = NoRequest

\* one context is a member of the engine, shared by every call
m_pContext(c) == CHOOSE b \in Calls : \A a \in Calls : b <= a

\* bulkWrite makes a BulkWriteContext of its own for every call; the build
\* lambdas and the continuation of compose capture it
pContext(c) == c

bulkWriteCall(c, kind, entities) ==
    /\ CallReturns(c)
    /\ callerHolds
    /\ request' = [request EXCEPT ![c] = [kind |-> kind, entities |-> entities]]
    /\ IF IsEmpty(Len(entities))
       THEN /\ handle' = [handle EXCEPT ![c] = "ready"]
            /\ UNCHANGED <<partitions, m_futures, buildTask, pBulk, execTask,
                           pPromise, remaining, fatalLog>>
            /\ UNCHANGED refVars
       ELSE LET parts == Partitions(Len(entities), numThreads)
                P == Len(parts)
            IN /\ partitions' = [partitions EXCEPT ![c] = parts]
               /\ m_futures' = [m_futures EXCEPT ![pContext(c)] =
                      [s \in 1..NumOperations(Len(entities), numThreads) |-> 0]]
               /\ buildTask' = [buildTask EXCEPT ![c] = [k \in 1..P |-> "queued"]]
               /\ pBulk' = [pBulk EXCEPT ![c] = [k \in 1..P |-> <<>>]]
               /\ execTask' = [execTask EXCEPT ![c] = [k \in 1..P |-> "none"]]
               /\ pPromise' = [pPromise EXCEPT ![c] = [k \in 1..P |-> NoPromise]]
               /\ fatalLog' = [fatalLog EXCEPT ![c] = [k \in 1..P |-> <<>>]]
               /\ remaining' = [remaining EXCEPT ![c] = P]
               /\ handle' = [handle EXCEPT ![c] = "pending"]
               /\ Retain(P)
    /\ UNCHANGED <<numThreads, poolSize, m_connectionPool, db>>
    /\ UNCHANGED fixedVars

bulkInsert(c, entities) == bulkWriteCall(c, "InsertOne", entities)
bulkInsertMany(c, entities) == bulkWriteCall(c, "InsertMany", entities)
bulkUpsert(c, entities) == bulkWriteCall(c, "Upsert", entities)
bulkDelete(c, entities) == bulkWriteCall(c, "Delete", entities)

\* ------------------------------------------------------------- build task
\* a worker takes the build task of partition k from the io_service
BuildStart(c, k) ==
    /\ k \in Parts(c)
    /\ buildTask[c][k] = "queued"
    /\ WorkerFree
    /\ buildTask' = [buildTask EXCEPT ![c][k] = "building"]
    /\ UNCHANGED <<numThreads, poolSize, m_connectionPool, db, request, partitions,
                   m_futures, pBulk, execTask, pPromise, remaining, handle, fatalLog>>
    /\ UNCHANGED refVars
    /\ UNCHANGED fixedVars

\* the loop appends every operation, then handleBulkOperation creates the
\* promise and posts the execute task
handleBulkOperation(c, k) ==
    /\ pPromise' = [pPromise EXCEPT ![c][k] = PendingPromise]
    /\ execTask' = [execTask EXCEPT ![c][k] = "queued"]

BuildDispatch(c, k) ==
    /\ k \in Parts(c)
    /\ buildTask[c][k] = "building"
    /\ pBulk' = [pBulk EXCEPT ![c][k] =
           BuildBulk(request[c].kind, request[c].entities, partitions[c][k])]
    /\ handleBulkOperation(c, k)
    /\ buildTask' = [buildTask EXCEPT ![c][k] = "dispatching"]
    /\ UNCHANGED <<numThreads, poolSize, m_connectionPool, db, request, partitions,
                   m_futures, remaining, handle, fatalLog>>
    /\ Retain(1)
    /\ UNCHANGED fixedVars

\* setFutureAt(batchIndex, future); the task ends and ParallelForPartition
\* counts it; the last one runs the continuation of compose
\* the future is stored in the first slot whatever the index
setFutureAtFront(futures, index, future) == [futures EXCEPT ![1] = future]

setFutureAt(futures, index, future) == [futures EXCEPT ![index + 1] = future]

BuildFinish(c, k) ==
    /\ k \in Parts(c)
    /\ buildTask[c][k] = "dispatching"
    /\ LET futures == setFutureAt(m_futures[pContext(c)], partitions[c][k].batchIndex, k)
       IN /\ m_futures' = [m_futures EXCEPT ![pContext(c)] = futures]
          /\ remaining' = [remaining EXCEPT ![c] = @ - 1]
          /\ handle' = [handle EXCEPT ![c] = compose(remaining[c] - 1, futures, pPromise[c])]
    /\ buildTask' = [buildTask EXCEPT ![c][k] = "done"]
    /\ UNCHANGED <<numThreads, poolSize, m_connectionPool, db, request, partitions,
                   pBulk, execTask, pPromise, fatalLog>>
    /\ ReleaseLambda
    /\ UNCHANGED fixedVars

\* ----------------------------------------------------------- execute task
\* a worker takes the execute task: bulkWrite(collectionName, bulk, promise)
ExecStart(c, k) ==
    /\ k \in Parts(c)
    /\ execTask[c][k] = "queued"
    /\ WorkerFree
    /\ execTask' = [execTask EXCEPT ![c][k] = "acquiring"]
    /\ UNCHANGED <<numThreads, poolSize, m_connectionPool, db, request, partitions,
                   m_futures, buildTask, pBulk, pPromise, remaining, handle, fatalLog>>
    /\ UNCHANGED refVars
    /\ UNCHANGED fixedVars

\* m_connectionPool.acquire() blocks while no connection is free
\* acquire() hands out a connection although none is free
AlwaysAcquire(free) == TRUE

CanAcquire(free) == free > 0

Acquire(c, k) ==
    /\ k \in Parts(c)
    /\ execTask[c][k] = "acquiring"
    /\ CanAcquire(m_connectionPool)
    /\ m_connectionPool' = m_connectionPool - 1
    /\ execTask' = [execTask EXCEPT ![c][k] = "holding"]
    /\ UNCHANGED <<numThreads, poolSize, db, request, partitions, m_futures,
                   buildTask, pBulk, pPromise, remaining, handle, fatalLog>>
    /\ UNCHANGED refVars
    /\ UNCHANGED fixedVars

\* pConnection goes out of scope without going back to the pool
leak(free) == free

\* pConnection goes out of scope (end of the try block, or unwinding): the
\* connection is back in the pool
release(free) == free + 1

\* the promise resolves and the continuations of its future run
Resolve(c, k, promise) ==
    LET promises == [pPromise[c] EXCEPT ![k] = promise]
    IN /\ pPromise' = [pPromise EXCEPT ![c] = promises]
       /\ handle' = [handle EXCEPT ![c] = compose(remaining[c], m_futures[pContext(c)], promises)]

\* collection.bulk_write(bulk) returns a result; promise.set_value; the
\* connection goes back to the pool at the end of the try block
BulkWriteOk(c, k) ==
    /\ k \in Parts(c)
    /\ execTask[c][k] = "holding"
    /\ LET done == bulk_write(db, pBulk[c][k], Len(pBulk[c][k]))
       IN /\ db' = done.db
          /\ Resolve(c, k, set_value(FromMongoResult(done.result)))
    /\ m_connectionPool' = release(m_connectionPool)
    /\ execTask' = [execTask EXCEPT ![c][k] = "done"]
    /\ UNCHANGED <<numThreads, poolSize, request, partitions, m_futures,
                   buildTask, pBulk, remaining, fatalLog>>
    /\ ReleaseLambda
    /\ UNCHANGED fixedVars

\* catch (const mongocxx::bulk_write_exception&)

Catches(type) == type = "bulk_write_exception"

\* the diagnostic of the catch block: the message of the error code and, when
\* the server sent one, the description of the raw server error
Diagnostic(code, raw_server_error) ==
    IF raw_server_error THEN <<"message", code, "description", code>>
    ELSE <<"message", code>>

\* the catch block submits the command again
ThrownRetries(c, k, type, diagnostic) ==
    /\ execTask' = [execTask EXCEPT ![c][k] = "acquiring"]
    /\ UNCHANGED fatalLog
    /\ UNCHANGED refVars

\* the catch block sets the exception without logging
ThrownUnlogged(c, k, type, diagnostic) ==
    /\ execTask' = [execTask EXCEPT ![c][k] = "logged"]
    /\ UNCHANGED fatalLog
    /\ UNCHANGED refVars

\* an exception of the given type leaves the try block: the catch block
\* formats the diagnostic and logs it at fatal level; any other exception
\* leaves bulkWrite and the promise stays unset
Thrown(c, k, type, diagnostic) ==
    IF Catches(type)
    THEN /\ fatalLog' = [fatalLog EXCEPT ![c][k] = diagnostic]
         /\ execTask' = [execTask EXCEPT ![c][k] = "logged"]
         /\ UNCHANGED refVars
    ELSE /\ execTask' = [execTask EXCEPT ![c][k] = "escaped"]
         /\ UNCHANGED fatalLog
         /\ ReleaseLambda

\* m_connectionPool.acquire() throws (no connection was taken)
AcquireThrows(c, k) ==
    /\ k \in Parts(c)
    /\ execTask[c][k] = "acquiring"
    /\ Thrown(c, k, "exception", Diagnostic("acquire", FALSE))
    /\ UNCHANGED <<numThreads, poolSize, m_connectionPool, db, request, partitions,
                   m_futures, buildTask, pBulk, pPromise, remaining, handle>>
    /\ UNCHANGED fixedVars

\* collection.bulk_write(bulk) throws bulk_write_exception after n operations
\* were applied (the server rejected the command, or the transport failed);
\* the unwinding releases the connection
BulkWriteThrows(c, k, n, raw_server_error) ==
    /\ k \in Parts(c)
    /\ execTask[c][k] = "holding"
    /\ n \in 0..(Len(pBulk[c][k]) - 1)
    /\ db' = bulk_write(db, pBulk[c][k], n).db
    /\ m_connectionPool' = release(m_connectionPool)
    /\ Thrown(c, k, "bulk_write_exception", Diagnostic("bulk_write", raw_server_error))
    /\ UNCHANGED <<numThreads, poolSize, request, partitions, m_futures,
                   buildTask, pBulk, pPromise, remaining, handle>>
    /\ UNCHANGED fixedVars

\* promise.set_exception(catapult_runtime_error(stream.str()))
SetException(c, k) ==
    /\ k \in Parts(c)
    /\ execTask[c][k] = "logged"
    /\ Resolve(c, k, set_exception(fatalLog[c][k]))
    /\ execTask' = [execTask EXCEPT ![c][k] = "failed"]
    /\ UNCHANGED <<numThreads, poolSize, m_connectionPool, db, request, partitions,
                   m_futures, buildTask, pBulk, remaining, fatalLog>>
    /\ ReleaseLambda
    /\ UNCHANGED fixedVars

\* the caller drops the shared_ptr it got from Create
CallerRelease ==
    /\ callerHolds
    /\ callerHolds' = FALSE
    /\ use_count' = use_count - 1
    /\ destroyed' = (destroyed \/ use_count - 1 = 0)
    /\ UNCHANGED <<numThreads, poolSize, m_connectionPool, db, request, partitions,
                   m_futures, buildTask, pBulk, execTask, pPromise, remaining,
                   handle, fatalLog>>
    /\ UNCHANGED fixedVars

\* ------------------------------------------------------------------ Next
Step(c, k) ==
    \/ BuildStart(c, k)
    \/ BuildDispatch(c, k)
    \/ BuildFinish(c, k)
    \/ ExecStart(c, k)
    \/ Acquire(c, k)
    \/ AcquireThrows(c, k)
    \/ BulkWriteOk(c, k)
    \/ \E n \in 0..MaxLen, raw \in BOOLEAN : BulkWriteThrows(c, k, n, raw)
    \/ SetException(c, k)

\* one call on an engine, any entities, any collection contents
Entities == SeqsUpTo(Keys, MaxLen)

Init == \E docs \in 0..MaxDocs : InitDb([key \in Keys |-> docs])

Next ==
    \/ \E entities \in Entities : bulkInsert(1, entities)
    \/ \E entities \in Entities : bulkInsertMany(1, entities)
    \/ \E entities \in Entities : bulkUpsert(1, entities)
    \/ \E entities \in Entities : bulkDelete(1, entities)
    \/ \E k \in 1..MaxLen : Step(1, k)

Spec == Init /\ [][Next]_vars

\* the same, with a caller that may drop the engine at any moment
NextKeepAlive == Next \/ CallerRelease

SpecKeepAlive == Init /\ [][NextKeepAlive]_vars

\* concurrent calls on one engine
SharedEntities == SeqsUpTo(1..MaxKeyShared, MaxLenShared)

\* the calls together carry at most MaxLenShared entities
TotalEntities == SumSeq([c \in Calls |-> Len(request[c].entities)])

\* the caller numbers its calls in the order it issues them
NextCall(c, entities) ==
    /\ request[c] = NoRequest
    /\ \A b \in 1..(c - 1) : request[b] # NoRequest
    /\ TotalEntities + Len(entities) <= MaxLenShared

InitCalls == InitDb([key \in Keys |-> 0])

NextCalls ==
    \/ \E c \in Calls, entities \in SharedEntities : NextCall(c, entities) /\ bulkInsert(c, entities)
    \/ \E c \in Calls, entities \in SharedEntities : NextCall(c, entities) /\ bulkInsertMany(c, entities)
    \/ \E c \in Calls, entities \in SharedEntities : NextCall(c, entities) /\ bulkUpsert(c, entities)
    \/ \E c \in Calls, entities \in SharedEntities : NextCall(c, entities) /\ bulkDelete(c, entities)
    \/ \E c \in Calls, k \in 1..MaxLen : Step(c, k)

SpecCalls == InitCalls /\ [][NextCalls]_vars

\* one call under fair scheduling: the io_service runs every posted task, a
\* running task takes its next step, acquire() returns (or throws) once a
\* connection is free often enough, the server answers every command
NextFair ==
    \/ \E entities \in SharedEntities : bulkInsert(1, entities)
    \/ \E entities \in SharedEntities : bulkInsertMany(1, entities)
    \/ \E entities \in SharedEntities : bulkUpsert(1, entities)
    \/ \E entities \in SharedEntities : bulkDelete(1, entities)
    \/ \E k \in 1..MaxLen : Step(1, k)

Fairness ==
    \A k \in 1..MaxLen :
        /\ WF_vars(BuildStart(1, k))
        /\ WF_vars(BuildDispatch(1, k))
        /\ WF_vars(BuildFinish(1, k))
        /\ WF_vars(ExecStart(1, k))
        /\ SF_vars(Acquire(1, k) \/ AcquireThrows(1, k))
        /\ WF_vars(BulkWriteOk(1, k)
                      \/ \E n \in 0..MaxLen, raw \in BOOLEAN : BulkWriteThrows(1, k, n, raw))
        /\ WF_vars(SetException(1, k))

SpecFair == InitCalls /\ [][NextFair]_vars /\ Fairness

\* the partitioning of bulkWrite on its own: any container size, any number
\* of worker threads
InitPartitioning ==
    /\ numThreads = 1
    /\ poolSize = 1
    /\ m_connectionPool = 1
    /\ db = [key \in Keys |-> 0]
    /\ db0 = db
    /\ request = [c \in Calls |-> NoRequest]
    /\ partitions = [c \in Calls |-> <<>>]
    /\ m_futures = [c \in Calls |-> <<>>]
    /\ buildTask = [c \in Calls |-> <<>>]
    /\ pBulk = [c \in Calls |-> <<>>]
    /\ execTask = [c \in Calls |-> <<>>]
    /\ pPromise = [c \in Calls |-> <<>>]
    /\ remaining = [c \in Calls |-> 0]
    /\ handle = [c \in Calls |-> "none"]
    /\ fatalLog = [c \in Calls |-> <<>>]
    /\ use_count = 1
    /\ callerHolds = TRUE
    /\ destroyed = FALSE
    /\ partLen \in 0..MaxPartLen
    /\ partThreads \in 1..MaxPartWorkers
    /\ partResult = NotPartitioned
    /\ aggResults = <<>>
    /\ aggPermuted = <<>>
    /\ aggReturn = NotAggregated
    /\ aggReturnPermuted = NotAggregated

Partition ==
    /\ ~partResult.done
    /\ partResult' = [done |-> TRUE,
                      partitions |-> Partitions(partLen, partThreads),
                      slots |-> IF IsEmpty(partLen) THEN 0
                                ELSE NumOperations(partLen, partThreads)]
    /\ UNCHANGED <<partLen, partThreads, db0>>
    /\ UNCHANGED aggVars
    /\ UNCHANGED engineVars

NextPartitioning == Partition

SpecPartitioning == InitPartitioning /\ [][NextPartitioning]_vars

\* BulkWriteResult::Aggregate on its own: any vector of results, aggregated
\* in the order given and in another order
CountValues == {0, 1, Int32Max}

ResultValues ==
    {r \in {[NumInserted |-> i, NumMatched |-> m, NumModified |-> o,
             NumDeleted |-> d, NumUpserted |-> u] :
                i \in CountValues, m \in CountValues, o \in CountValues,
                d \in CountValues, u \in CountValues} :
        Cardinality({f \in Fields : r[f] # 0}) <= MaxNonZero}

Permuted(results) ==
    {[i \in 1..Len(results) |-> results[p[i]]] : p \in Permutations(1..Len(results))}

InitAggregate ==
    /\ numThreads = 1
    /\ poolSize = 1
    /\ m_connectionPool = 1
    /\ db = [key \in Keys |-> 0]
    /\ db0 = db
    /\ request = [c \in Calls |-> NoRequest]
    /\ partitions = [c \in Calls |-> <<>>]
    /\ m_futures = [c \in Calls |-> <<>>]
    /\ buildTask = [c \in Calls |-> <<>>]
    /\ pBulk = [c \in Calls |-> <<>>]
    /\ execTask = [c \in Calls |-> <<>>]
    /\ pPromise = [c \in Calls |-> <<>>]
    /\ remaining = [c \in Calls |-> 0]
    /\ handle = [c \in Calls |-> "none"]
    /\ fatalLog = [c \in Calls |-> <<>>]
    /\ use_count = 1
    /\ callerHolds = TRUE
    /\ destroyed = FALSE
    /\ partLen = 0
    /\ partThreads = 1
    /\ partResult = NotPartitioned
    /\ aggResults \in SeqsUpTo(ResultValues, MaxResults)
    /\ aggPermuted \in Permuted(aggResults)
    /\ aggReturn = NotAggregated
    /\ aggReturnPermuted = NotAggregated

AggregateResults ==
    /\ aggReturn = NotAggregated
    /\ aggReturn' \in AggregateOutcomes(aggResults)
    /\ UNCHANGED <<aggResults, aggPermuted, aggReturnPermuted>>
    /\ UNCHANGED <<db0, partLen, partThreads, partResult>>
    /\ UNCHANGED engineVars

AggregatePermuted ==
    /\ aggReturnPermuted = NotAggregated
    /\ aggReturnPermuted' \in AggregateOutcomes(aggPermuted)
    /\ UNCHANGED <<aggResults, aggPermuted, aggReturn>>
    /\ UNCHANGED <<db0, partLen, partThreads, partResult>>
    /\ UNCHANGED engineVars

NextAggregate == AggregateResults \/ AggregatePermuted

SpecAggregate == InitAggregate /\ [][NextAggregate]_vars

\* ================================================================ claims
Issued(c) == request[c] # NoRequest
NonEmptyCall(c) == Issued(c) /\ Len(request[c].entities) > 0
AllResolved(c) == \A k \in Parts(c) : IsReady(pPromise[c][k])
AllSucceeded(c) == \A k \in Parts(c) : pPromise[c][k].state = "value"
AllBuilt(c) == \A k \in Parts(c) : buildTask[c][k] = "done"
ExecEnded(c, k) == execTask[c][k] \in {"done", "failed", "escaped"}
Outcomes(c) == [k \in 1..Len(partitions[c]) |-> pPromise[c][k].result]

\* C1: every execute task that has ended has resolved its promise with a
\* value or with an exception, whatever was thrown inside it (an exception of
\* acquire() included), and no exception leaves the task.
C1_ExecutorAlwaysResolves ==
    \A c \in Calls : \A k \in Parts(c) :
        /\ execTask[c][k] # "escaped"
        /\ ExecEnded(c, k) => IsReady(pPromise[c][k])

\* C2 (as stated): for a non-empty call the composed future is ready exactly
\* when every partition's promise is resolved.
C2_ReadyIffAllResolved ==
    \A c \in Calls :
        NonEmptyCall(c) => (handle[c] = "ready" <=> AllResolved(c))

\* C2 (amended): for a non-empty call the composed future is ready exactly
\* when every partition's promise is resolved (with a value or an exception)
\* and every build task has finished; it is never ready while a partition is
\* unresolved.
C2_ReadyIffResolvedAndDispatched ==
    \A c \in Calls :
        NonEmptyCall(c) =>
            (handle[c] = "ready" <=> (AllResolved(c) /\ AllBuilt(c)))

\* a call of two partitions is ready although one of them failed
C2_Witness ==
    \E c \in Calls :
        /\ Len(partitions[c]) >= 2
        /\ handle[c] = "ready"
        /\ \E k \in Parts(c) : pPromise[c][k].state = "exception"
        /\ \E k \in Parts(c) : pPromise[c][k].state = "value"

\* C3: a partition whose command the server rejects resolves with an
\* exception; a step that fails one partition changes nothing of another
\* partition, every partition that succeeds reports the inserts of its own
\* command, and the composed future is ready once all partitions are resolved
\* and dispatched. With 4 entities and 2 threads: partition 0 rejected is an
\* exception, partition 1 reports NumInserted = 2.
C3_Scenario(c) ==
    /\ request[c].kind = "InsertOne"
    /\ Len(request[c].entities) = 4
    /\ numThreads = 2

C3_IsolationInv ==
    \A c \in Calls :
        /\ \A k \in Parts(c) :
              /\ (execTask[c][k] = "failed" => pPromise[c][k].state = "exception")
              /\ (request[c].kind = "InsertOne" /\ pPromise[c][k].state = "value")
                    => pPromise[c][k].result.NumInserted = partitions[c][k].size
        /\ ((NonEmptyCall(c) /\ AllResolved(c) /\ AllBuilt(c)) => handle[c] = "ready")
        /\ C3_Scenario(c) =>
              /\ Len(partitions[c]) = 2
              /\ (execTask[c][1] = "failed" => pPromise[c][1].state = "exception")
              /\ (pPromise[c][2].state = "value" => pPromise[c][2].result.NumInserted = 2)

C3_IsolationStep ==
    \A c \in Calls : \A j \in Parts(c) :
        ((execTask[c][j] = "holding" /\ execTask'[c][j] = "logged")
            \/ (execTask[c][j] = "logged" /\ execTask'[c][j] = "failed"))
        => \A k \in Parts(c) \ {j} :
              /\ execTask'[c][k] = execTask[c][k]
              /\ buildTask'[c][k] = buildTask[c][k]
              /\ pPromise'[c][k] = pPromise[c][k]
              /\ pBulk'[c][k] = pBulk[c][k]

C3_Isolation == []C3_IsolationInv /\ [][C3_IsolationStep]_vars

C3_Witness ==
    /\ C3_Scenario(1)
    /\ execTask[1][1] = "failed"
    /\ pPromise[1][1].state = "exception"
    /\ pPromise[1][2].state = "value"
    /\ pPromise[1][2].result.NumInserted = 2
    /\ handle[1] = "ready"

\* C6: a call with an empty container has a ready future with no outcomes,
\* no partition, no build task, no execute task; issuing it takes no
\* connection from the pool.
C6_EmptyInv ==
    \A c \in Calls :
        (Issued(c) /\ Len(request[c].entities) = 0) =>
            /\ handle[c] = "ready"
            /\ partitions[c] = <<>>
            /\ m_futures[c] = <<>>
            /\ buildTask[c] = <<>>
            /\ execTask[c] = <<>>
            /\ pPromise[c] = <<>>

C6_EmptyStep ==
    \A c \in Calls :
        (~Issued(c) /\ request'[c] # NoRequest /\ Len(request'[c].entities) = 0) =>
            /\ handle'[c] = "ready"
            /\ m_connectionPool' = m_connectionPool
            /\ buildTask' = buildTask
            /\ execTask' = execTask

C6_EmptyCallReady == []C6_EmptyInv /\ [][C6_EmptyStep]_vars

C6_Witness ==
    \E c \in Calls :
        /\ Issued(c)
        /\ Len(request[c].entities) = 0
        /\ handle[c] = "ready"
        /\ Outcomes(c) = <<>>

\* C7: the executors holding a connection are never more than the pool has,
\* and the free connections are the rest of the pool.
Holding ==
    {t \in Calls \X (1..MaxLen) : t[2] \in Parts(t[1]) /\ execTask[t[1]][t[2]] = "holding"}

Waiting ==
    {t \in Calls \X (1..MaxLen) : t[2] \in Parts(t[1]) /\ execTask[t[1]][t[2]] = "acquiring"}

C7_PoolBound ==
    /\ Cardinality(Holding) <= poolSize
    /\ m_connectionPool >= 0
    /\ m_connectionPool + Cardinality(Holding) = poolSize

\* the pool is exhausted and an executor waits in acquire()
C7_Witness ==
    /\ m_connectionPool = 0
    /\ Cardinality(Holding) = poolSize
    /\ Waiting # {}

\* C8: a one-to-one bulkInsert builds, over all partitions, exactly one
\* insert per entity, in order, each with the entity's global index; when
\* every partition succeeded the aggregate has NumInserted = N.
RECURSIVE Flatten(_)
Flatten(seqs) == IF seqs = <<>> THEN <<>> ELSE Head(seqs) \o Flatten(Tail(seqs))

BulkBuilt(c, k) == buildTask[c][k] \in {"dispatching", "done"}

C8_InsertCount ==
    \A c \in Calls :
        request[c].kind = "InsertOne" =>
            LET entities == request[c].entities
                N == Len(entities)
            IN /\ ((\A k \in Parts(c) : BulkBuilt(c, k)) =>
                    Flatten(pBulk[c]) =
                        [i \in 1..N |-> insert_one(createDocument(entities[i], i - 1))])
               /\ ((NonEmptyCall(c) /\ AllSucceeded(c)) =>
                    Aggregate(Outcomes(c)).NumInserted = N)

C8_Witness ==
    /\ request[1].kind = "InsertOne"
    /\ Len(request[1].entities) = 4
    /\ Len(partitions[1]) = 2
    /\ AllSucceeded(1)
    /\ handle[1] = "ready"
    /\ Aggregate(Outcomes(1)).NumInserted = 4

\* C9: the only call of the engine is a bulkUpsert and every partition
\* succeeded.
Filters(c) == [i \in 1..Len(request[c].entities) |-> createFilter(request[c].entities[i])]
NoneMatch(c) == \A i \in 1..Len(Filters(c)) : db0[Filters(c)[i]] = 0
AllMatch(c) == \A i \in 1..Len(Filters(c)) : db0[Filters(c)[i]] > 0
DistinctFilters(c) ==
    \A i, j \in 1..Len(Filters(c)) : i # j => Filters(c)[i] # Filters(c)[j]
UpsertDone(c) == request[c].kind = "Upsert" /\ NonEmptyCall(c) /\ AllSucceeded(c)

\* C9 (as stated): no filter matches a document => NumUpserted = N and
\* NumModified = 0; every filter matches a document => NumModified = N and
\* NumUpserted = 0.
C9_UpsertCounts ==
    UpsertDone(1) =>
        LET N == Len(request[1].entities)
            a == Aggregate(Outcomes(1))
        IN /\ (NoneMatch(1) => (a.NumUpserted = N /\ a.NumModified = 0))
           /\ (AllMatch(1) => (a.NumModified = N /\ a.NumUpserted = 0))

\* C9 (amended): no filter matches a document and no two entities have the
\* same filter => NumUpserted = N and NumModified = 0; every filter matches
\* a document => NumModified = N and NumUpserted = 0.
C9_UpsertCountsDistinct ==
    UpsertDone(1) =>
        LET N == Len(request[1].entities)
            a == Aggregate(Outcomes(1))
        IN /\ ((NoneMatch(1) /\ DistinctFilters(1)) =>
                (a.NumUpserted = N /\ a.NumModified = 0))
           /\ (AllMatch(1) => (a.NumModified = N /\ a.NumUpserted = 0))

C9_Witness ==
    /\ UpsertDone(1)
    /\ NoneMatch(1)
    /\ DistinctFilters(1)
    /\ Len(request[1].entities) = 2
    /\ Len(partitions[1]) = 2
    /\ Aggregate(Outcomes(1)).NumUpserted = 2

\* C10: a bulkDelete builds one delete_many per entity with the entity's
\* filter; a command that succeeded has removed every document matching its
\* filters and counts them; when no filter matches a document every
\* partition that resolves with a value has NumDeleted = 0 and so has the
\* aggregate.
FiltersOf(bulk) == {bulk[i].filter : i \in 1..Len(bulk)}

RECURSIVE SumOver(_, _)
SumOver(S, f) ==
    IF S = {} THEN 0
    ELSE LET x == CHOOSE y \in S : TRUE IN f[x] + SumOver(S \ {x}, f)

C10_DeleteInv ==
    \A c \in Calls :
        request[c].kind = "Delete" =>
            LET entities == request[c].entities
            IN /\ ((\A k \in Parts(c) : BulkBuilt(c, k)) =>
                    Flatten(pBulk[c]) =
                        [i \in 1..Len(entities) |-> delete_many(createFilter(entities[i]))])
               /\ NoneMatch(c) =>
                    /\ \A k \in Parts(c) :
                          pPromise[c][k].state = "value" =>
                              pPromise[c][k].result.NumDeleted = 0
                    /\ ((NonEmptyCall(c) /\ AllSucceeded(c)) =>
                          Aggregate(Outcomes(c)).NumDeleted = 0)

C10_DeleteStep ==
    \A c \in Calls : \A k \in Parts(c) :
        (request[c].kind = "Delete" /\ execTask[c][k] = "holding"
            /\ execTask'[c][k] = "done") =>
            /\ \A f \in FiltersOf(pBulk[c][k]) : db'[f] = 0
            /\ pPromise'[c][k].state = "value"
            /\ pPromise'[c][k].result.NumDeleted = SumOver(FiltersOf(pBulk[c][k]), db)

C10_DeleteAll == []C10_DeleteInv /\ [][C10_DeleteStep]_vars

C10_Witness ==
    /\ request[1].kind = "Delete"
    /\ Len(partitions[1]) = 2
    /\ NoneMatch(1)
    /\ AllSucceeded(1)
    /\ handle[1] = "ready"
    /\ Aggregate(Outcomes(1)).NumDeleted = 0

\* C4: under fair scheduling every partition of a call is eventually
\* resolved and the composed future eventually becomes ready, whatever the
\* sizes of the worker pool and of the connection pool.
C4_EventuallyReady ==
    /\ (handle[1] = "pending") ~> (handle[1] = "ready")
    /\ \A k \in 1..MaxLen :
          (k \in Parts(1)) ~> (k \in Parts(1) /\ IsReady(pPromise[1][k]))

\* C5: the partitions of a container of L entities on W threads are
\* contiguous ranges inside [0, L), every index of [0, L) lies in exactly one
\* of them, there are min(W, L) of them, and none exactly when L = 0.
Covers(part, i) == part.startIndex <= i /\ i < part.startIndex + part.size

C5_PartitionsExact ==
    partResult.done =>
        LET parts == partResult.partitions
            L == partLen
            W == partThreads
        IN /\ Len(parts) = Min(W, L)
           /\ (Len(parts) = 0 <=> L = 0)
           /\ \A k \in 1..Len(parts) :
                 /\ parts[k].startIndex >= 0
                 /\ parts[k].size >= 0
                 /\ parts[k].startIndex + parts[k].size <= L
           /\ \A i \in 0..(L - 1) :
                 Cardinality({k \in 1..Len(parts) : Covers(parts[k], i)}) = 1

\* more entities than threads, not a multiple of them
C5_Witness ==
    /\ partResult.done
    /\ partThreads >= 2
    /\ partLen > partThreads
    /\ partLen % partThreads # 0
    /\ Len(partResult.partitions) = partThreads

\* C11: Aggregate returns, for every vector of results, the elementwise sum
\* of the five count fields (the default result for the empty vector), and
\* returns the same for the vector in any other order.
RECURSIVE FieldSumFits(_, _, _)
FieldSumFits(results, f, sum) ==
    IF results = <<>> THEN TRUE
    ELSE /\ Fits32(sum, Head(results)[f])
         /\ FieldSumFits(Tail(results), f, sum + Head(results)[f])

RECURSIVE FieldSum(_, _)
FieldSum(results, f) ==
    IF results = <<>> THEN 0 ELSE Head(results)[f] + FieldSum(Tail(results), f)

\* value holds the sums of the fields (which no int32_t holds when a sum of
\* these non-negative counts is above Int32Max)
IsSumOf(value, results) ==
    \A f \in Fields :
        FieldSumFits(results, f, 0) /\ value[f] = FieldSum(results, f)

C11_AggregateIsSum ==
    /\ (aggReturn # NotAggregated) =>
          /\ aggReturn.state = "returned"
          /\ IsSumOf(aggReturn.value, aggResults)
          /\ (aggResults = <<>> => aggReturn.value = BulkWriteResult)
    /\ (aggReturn # NotAggregated /\ aggReturnPermuted # NotAggregated) =>
          /\ aggReturnPermuted.state = "returned"
          /\ aggReturnPermuted.value = aggReturn.value

\* without overflow: the sums, and the same in any order
C11_AggregateIsSumWhenItFits ==
    (~AggregateOverflows(aggResults)) => C11_AggregateIsSum

\* C12: a public write operation can be called, and returns its future,
\* whatever the worker threads and the connection pool are doing; when it
\* returns (non-empty container) the future is pending, every build task of
\* the call is still queued, no execute task exists, and the call has taken
\* no connection and moved no task of another call.
C12_CallEnabled ==
    \A c \in Calls : \A entities \in SharedEntities :
        (callerHolds /\ NextCall(c, entities)) =>
            \A kind \in Kinds : ENABLED bulkWriteCall(c, kind, entities)

C12_ReturnStep ==
    \A c \in Calls :
        (~Issued(c) /\ request'[c] # NoRequest /\ Len(request'[c].entities) > 0) =>
            /\ handle'[c] = "pending"
            /\ Len(partitions'[c]) > 0
            /\ \A k \in 1..Len(partitions'[c]) :
                  /\ buildTask'[c][k] = "queued"
                  /\ execTask'[c][k] = "none"
                  /\ pPromise'[c][k] = NoPromise
            /\ m_connectionPool' = m_connectionPool
            /\ db' = db
            /\ \A b \in Calls \ {c} :
                  /\ buildTask'[b] = buildTask[b]
                  /\ execTask'[b] = execTask[b]
                  /\ handle'[b] = handle[b]

C12_CallerNotBlocked == []C12_CallEnabled /\ [][C12_ReturnStep]_vars

\* a call has returned with all its build tasks queued while every worker
\* thread is busy, the pool is exhausted and an executor waits in acquire()
C12_Witness ==
    \E c \in Calls :
        /\ NonEmptyCall(c)
        /\ handle[c] = "pending"
        /\ \A k \in Parts(c) : buildTask[c][k] = "queued"
        /\ ~WorkerFree
        /\ m_connectionPool = 0
        /\ Waiting # {}

\* C13: nothing is retried. A build task and an execute task only move
\* forward through their steps and an ended task stays ended; a command once
\* built is never changed; a partition's command is submitted (its executor
\* leaves collection.bulk_write) at most once, so the collection changes
\* only in the one submission step of one partition; after a failure the
\* partition is not queued, built or submitted again.
BuildRank(state) ==
    CASE state = "queued" -> 0
      [] state = "building" -> 1
      [] state = "dispatching" -> 2
      [] state = "done" -> 3

ExecRank(state) ==
    CASE state = "none" -> 0
      [] state = "queued" -> 1
      [] state = "acquiring" -> 2
      [] state = "holding" -> 3
      [] state = "logged" -> 4
      [] state \in {"done", "failed", "escaped"} -> 5

Submits(c, k) ==
    execTask[c][k] = "holding" /\ execTask'[c][k] # "holding"

C13_NoRetryStep ==
    /\ \A c \in Calls : \A k \in Parts(c) :
          /\ BuildRank(buildTask'[c][k]) >= BuildRank(buildTask[c][k])
          /\ ExecRank(execTask'[c][k]) >= ExecRank(execTask[c][k])
          /\ (ExecEnded(c, k) => execTask'[c][k] = execTask[c][k])
          /\ (BulkBuilt(c, k) => pBulk'[c][k] = pBulk[c][k])
          /\ (ExecRank(execTask[c][k]) > 3 => ~Submits(c, k))
          /\ (IsReady(pPromise[c][k]) =>
                /\ pPromise'[c][k] = pPromise[c][k]
                /\ execTask'[c][k] = execTask[c][k])
    /\ (db' # db) =>
          Cardinality({t \in Calls \X (1..MaxLen) :
                          t[2] \in Parts(t[1]) /\ Submits(t[1], t[2])}) = 1

C13_NoRetry == [][C13_NoRetryStep]_vars

\* one partition failed after part of its command was applied, its sibling
\* succeeded, and every task of the call has ended
C13_Witness ==
    \E c \in Calls :
        /\ Len(partitions[c]) = 2
        /\ AllBuilt(c)
        /\ execTask[c][1] = "failed"
        /\ execTask[c][2] = "done"
        /\ Len(pBulk[c][1]) = 2
        /\ db # db0

\* C14: the continuation of compose (aggregateFuture over m_futures) runs
\* only when every build task of the call has run: remaining counts the build
\* tasks that have not ended, and from the step that brings it to 0 on, every
\* slot of m_futures holds the future of its own partition, whose execute
\* task has been posted; the composed future is never ready before that. This
\* holds in every interleaving of build and execute tasks.
NotBuilt(c) == {k \in Parts(c) : buildTask[c][k] # "done"}

SlotsFilled(c) ==
    /\ Len(m_futures[c]) = Len(partitions[c])
    /\ \A s \in 1..Len(m_futures[c]) :
          /\ m_futures[c][s] = s
          /\ partitions[c][s].batchIndex = s - 1
          /\ execTask[c][s] # "none"
          /\ pPromise[c][s] # NoPromise

C14_DispatchInv ==
    \A c \in Calls :
        NonEmptyCall(c) =>
            /\ remaining[c] = Cardinality(NotBuilt(c))
            /\ (remaining[c] = 0 => SlotsFilled(c))
            /\ (handle[c] = "ready" => (remaining[c] = 0 /\ SlotsFilled(c)))

C14_ComposeStep ==
    \A c \in Calls :
        (remaining[c] > 0 /\ remaining'[c] = 0) =>
            /\ \A k \in Parts(c) : buildTask'[c][k] = "done"
            /\ \A s \in 1..Len(m_futures'[c]) :
                  m_futures'[c][s] = s /\ execTask'[c][s] # "none"

C14_DispatchComplete == []C14_DispatchInv /\ [][C14_ComposeStep]_vars

\* the last build task has just run: one execute task had already resolved
\* its promise, another has only been posted
C14_Witness ==
    \E c \in Calls :
        /\ Len(partitions[c]) >= 2
        /\ remaining[c] = 0
        /\ SlotsFilled(c)
        /\ handle[c] = "pending"
        /\ \E k \in Parts(c) : IsReady(pPromise[c][k])
        /\ \E k \in Parts(c) : execTask[c][k] = "queued"

\* C15: a partition is Pending until a worker takes its build task, Building
\* while the loop appends, Dispatched from the moment its execute task is
\* posted, Completed when its promise holds a value and Failed when it holds
\* an exception. Every step leaves the state alone or moves it one arrow
\* along Pending -> Building -> Dispatched -> {Completed, Failed}; the execute
\* task exists only once the whole command of the partition is built; a
\* resolved promise never changes.
PartitionState(c, k) ==
    CASE pPromise[c][k].state = "value" -> "Completed"
      [] pPromise[c][k].state = "exception" -> "Failed"
      [] pPromise[c][k].state \notin {"value", "exception"} /\ execTask[c][k] # "none" ->
            "Dispatched"
      [] pPromise[c][k].state \notin {"value", "exception"} /\ execTask[c][k] = "none"
            /\ buildTask[c][k] = "queued" -> "Pending"
      [] pPromise[c][k].state \notin {"value", "exception"} /\ execTask[c][k] = "none"
            /\ buildTask[c][k] # "queued" -> "Building"

Arrows ==
    {<<"Pending", "Building">>, <<"Building", "Dispatched">>,
     <<"Dispatched", "Completed">>, <<"Dispatched", "Failed">>}

C15_StateInv ==
    \A c \in Calls : \A k \in Parts(c) :
        /\ (PartitionState(c, k) = "Pending" =>
              (buildTask[c][k] = "queued" /\ pPromise[c][k] = NoPromise /\ pBulk[c][k] = <<>>))
        /\ (PartitionState(c, k) = "Building" =>
              (buildTask[c][k] = "building" /\ pPromise[c][k] = NoPromise))
        /\ (execTask[c][k] # "none" =>
              /\ BulkBuilt(c, k)
              /\ pBulk[c][k] = BuildBulk(request[c].kind, request[c].entities, partitions[c][k])
              /\ pPromise[c][k] # NoPromise)
        /\ (PartitionState(c, k) = "Completed" <=> execTask[c][k] = "done")
        /\ (PartitionState(c, k) = "Failed" <=> execTask[c][k] = "failed")

C15_StateStep ==
    \A c \in Calls : \A k \in Parts(c) :
        LET before == PartitionState(c, k)
            after == PartitionState(c, k)'
        IN /\ (after = before \/ <<before, after>> \in Arrows)
           /\ (before \in {"Completed", "Failed"} => pPromise'[c][k] = pPromise[c][k])

C15_PartitionStates == []C15_StateInv /\ [][C15_StateStep]_vars

\* one partition of a call has failed while another is still being built
C15_Witness ==
    \E c \in Calls : \E j, k \in Parts(c) :
        /\ PartitionState(c, j) = "Failed"
        /\ PartitionState(c, k) = "Building"

\* C16: while a build task or an execute task of the engine has not ended,
\* a task holds a strong reference to the engine, so the engine is not
\* destroyed, also when the caller has dropped its own reference; the
\* references are the caller's and one per task that has not ended, and the
\* engine is destroyed exactly when none is left.
BuildsInFlight ==
    {t \in Calls \X (1..MaxLen) :
        t[2] \in Parts(t[1]) /\ buildTask[t[1]][t[2]] # "done"}

ExecsInFlight ==
    {t \in Calls \X (1..MaxLen) :
        t[2] \in Parts(t[1])
        /\ execTask[t[1]][t[2]] \in {"queued", "acquiring", "holding", "logged"}}

InFlight == BuildsInFlight # {} \/ ExecsInFlight # {}

TaskRefs == use_count - (IF callerHolds THEN 1 ELSE 0)

C16_KeepAlive ==
    /\ (InFlight => (TaskRefs >= 1 /\ ~destroyed))
    /\ TaskRefs = Cardinality(BuildsInFlight) + Cardinality(ExecsInFlight)
    /\ (destroyed <=> use_count = 0)
    /\ (destroyed => (~callerHolds /\ ~InFlight))

\* the caller has dropped the engine and the last execute task, holding a
\* connection, is the only owner left
C16_Witness ==
    /\ ~callerHolds
    /\ ~destroyed
    /\ use_count = 1
    /\ BuildsInFlight = {}
    /\ \E t \in ExecsInFlight : execTask[t[1]][t[2]] = "holding"

\* C17: the context of a call of L entities on W threads has min(L, W)
\* slots from the call on; the batchIndex of every partition lies inside the
\* array and no two partitions have the same; m_futures changes only when a
\* build task ends, and that step writes the one slot at the task's own
\* batchIndex, which was empty, and leaves every other slot as it was.
BatchIndexes(c) == {partitions[c][k].batchIndex : k \in Parts(c)}

C17_SlotsInv ==
    \A c \in Calls :
        NonEmptyCall(c) =>
            /\ Len(m_futures[c]) = Min(Len(request[c].entities), numThreads)
            /\ \A k \in Parts(c) :
                  /\ partitions[c][k].batchIndex >= 0
                  /\ partitions[c][k].batchIndex < Len(m_futures[c])
            /\ Cardinality(BatchIndexes(c)) = Len(partitions[c])
            /\ \A k \in Parts(c) :
                  (m_futures[c][partitions[c][k].batchIndex + 1] # 0)
                      <=> buildTask[c][k] = "done"

C17_SlotsStep ==
    \A c \in Calls :
        (Issued(c) /\ m_futures'[c] # m_futures[c]) =>
            /\ Len(m_futures'[c]) = Len(m_futures[c])
            /\ \E k \in Parts(c) :
                  /\ buildTask[c][k] = "dispatching"
                  /\ buildTask'[c][k] = "done"
                  /\ m_futures[c][partitions[c][k].batchIndex + 1] = 0
                  /\ m_futures'[c][partitions[c][k].batchIndex + 1] = k
                  /\ \A s \in 1..Len(m_futures[c]) :
                        s # partitions[c][k].batchIndex + 1
                            => m_futures'[c][s] = m_futures[c][s]
                  /\ \A j \in Parts(c) \ {k} : buildTask'[c][j] = buildTask[c][j]

C17_OwnSlot == []C17_SlotsInv /\ [][C17_SlotsStep]_vars

\* the second build task has written its slot while the first, running on
\* another worker, is about to write its own
C17_Witness ==
    \E c \in Calls :
        /\ Len(m_futures[c]) = 2
        /\ m_futures[c][2] = 2
        /\ m_futures[c][1] = 0
        /\ buildTask[c][1] = "dispatching"

\* C18: for L > 0 entities on W threads there are P = min(W, L) partitions;
\* partition k (from 0) has batchIndex k, L div P + 1 entities when
\* k < L mod P and L div P otherwise, and starts at the sum of the sizes of
\* the partitions before it; so the sizes add up to L, differ by at most one,
\* and none is 0.
C18_PartitionSizing ==
    (partResult.done /\ partLen > 0) =>
        LET parts == partResult.partitions
            L == partLen
            P == Min(partThreads, partLen)
            sizes == [k \in 1..Len(parts) |-> parts[k].size]
        IN /\ Len(parts) = P
           /\ P > 0
           /\ \A k \in 1..Len(parts) :
                 /\ parts[k].batchIndex = k - 1
                 /\ parts[k].size = (IF k - 1 < L % P THEN (L \div P) + 1 ELSE L \div P)
                 /\ parts[k].startIndex = SumSeq(SubSeq(sizes, 1, k - 1))
                 /\ parts[k].size >= 1
           /\ \A j, k \in 1..Len(parts) : parts[j].size - parts[k].size <= 1
           /\ SumSeq(sizes) = L

\* 11 entities on 4 threads: sizes 3, 3, 3, 2 starting at 0, 3, 6, 9
C18_Witness ==
    /\ partResult.done
    /\ partLen = 11
    /\ partThreads = 4
    /\ [k \in 1..4 |-> partResult.partitions[k].size] = <<3, 3, 3, 2>>
    /\ [k \in 1..4 |-> partResult.partitions[k].startIndex] = <<0, 3, 6, 9>>

\* C19: in a call whose operation has a document mapper (both bulkInsert,
\* bulkUpsert) every document of a built command was made by the mapper from
\* the entity at some position i of the container with index i (from 0); a
\* partition's command holds exactly the calls for its own positions, and
\* once all partitions are built the calls are exactly those for positions
\* 0..L-1, one per entity, for any number of worker threads.
WithDocumentMapper == {"InsertOne", "InsertMany", "Upsert"}

\* the (entity, index) pairs the mapper was called with, read off the documents
MapperCalls(bulk) == {<<bulk[j].doc.key, bulk[j].doc.index>> : j \in 1..Len(bulk)}

\* the first document of every mapper call, in the order of the calls
FirstDocuments(bulk) == SelectSeq(bulk, LAMBDA o : o.doc.n = 1)

ExpectedCalls(entities, from, to) == {<<entities[i], i - 1>> : i \in from..to}

C19_GlobalIndex ==
    \A c \in Calls :
        request[c].kind \in WithDocumentMapper =>
            LET entities == request[c].entities
            IN /\ \A k \in Parts(c) :
                     BulkBuilt(c, k) =>
                        LET part == partitions[c][k]
                            first == FirstDocuments(pBulk[c][k])
                        IN /\ MapperCalls(pBulk[c][k]) =
                                ExpectedCalls(entities, part.startIndex + 1,
                                              part.startIndex + part.size)
                           /\ Len(first) = part.size
                           /\ \A j \in 1..Len(first) :
                                 /\ first[j].doc.index = part.startIndex + j - 1
                                 /\ first[j].doc.key = entities[part.startIndex + j]
               /\ (NonEmptyCall(c) /\ \A k \in Parts(c) : BulkBuilt(c, k)) =>
                     /\ MapperCalls(Flatten(pBulk[c])) =
                            ExpectedCalls(entities, 1, Len(entities))
                     /\ {pair[2] : pair \in MapperCalls(Flatten(pBulk[c]))} =
                            0..(Len(entities) - 1)
                     /\ Len(FirstDocuments(Flatten(pBulk[c]))) = Len(entities)

\* a bulkUpsert of three entities on two threads: the second partition maps
\* its only entity with index 2
C19_Witness ==
    /\ request[1].kind = "Upsert"
    /\ Len(request[1].entities) = 3
    /\ Len(partitions[1]) = 2
    /\ BulkBuilt(1, 1) /\ BulkBuilt(1, 2)
    /\ Len(pBulk[1][2]) = 1
    /\ pBulk[1][2][1].doc.index = 2

\* C20: the command of a built partition is, entity after entity in the
\* order of the partition's positions, the operations of that entity: one
\* operation, or for the one-to-many insert one insert per document in the
\* order the mapper returned them, all before the next entity's. A submitted
\* command is applied to the collection operation by operation in that
\* order, and a rejected one up to some operation of that order. (Between
\* partitions either can be applied first.)
OpsOf(kind, entity, index) ==
    CASE kind = "InsertOne" -> <<insert_one(createDocument(entity, index))>>
      [] kind = "InsertMany" ->
            [j \in 1..Len(createDocuments(entity, index)) |->
                insert_one(createDocuments(entity, index)[j])]
      [] kind = "Upsert" ->
            <<replace_one(createFilter(entity), createDocument(entity, index), TRUE)>>
      [] kind = "Delete" -> <<delete_many(createFilter(entity))>>

ExpectedBulk(kind, entities, part) ==
    Flatten([j \in 1..part.size |->
                OpsOf(kind, entities[part.startIndex + j], part.startIndex + j - 1)])

RECURSIVE ApplyInOrder(_, _)
ApplyInOrder(st, ops) ==
    IF ops = <<>> THEN st ELSE ApplyInOrder(ApplyOp(st, Head(ops)), Tail(ops))

Presented(database, ops) ==
    ApplyInOrder([db |-> database, result |-> MongoResult], ops)

C20_OrderInv ==
    \A c \in Calls : \A k \in Parts(c) :
        BulkBuilt(c, k) =>
            LET bulk == pBulk[c][k]
            IN /\ bulk = ExpectedBulk(request[c].kind, request[c].entities, partitions[c][k])
               /\ (request[c].kind \in WithDocumentMapper =>
                     \A j \in 1..(Len(bulk) - 1) :
                        \/ /\ request[c].kind = "InsertMany"
                           /\ bulk[j + 1].doc.index = bulk[j].doc.index
                           /\ bulk[j + 1].doc.n = bulk[j].doc.n + 1
                        \/ /\ bulk[j + 1].doc.index = bulk[j].doc.index + 1
                           /\ bulk[j + 1].doc.n = 1
                           /\ (request[c].kind = "InsertMany" =>
                                 bulk[j].doc.n = Len(createDocuments(bulk[j].doc.key, 0))))

C20_OrderStep ==
    \A c \in Calls : \A k \in Parts(c) :
        /\ (execTask[c][k] = "holding" /\ execTask'[c][k] = "done") =>
              /\ db' = Presented(db, pBulk[c][k]).db
              /\ pPromise'[c][k].result = FromMongoResult(Presented(db, pBulk[c][k]).result)
        /\ (execTask[c][k] = "holding" /\ execTask'[c][k] = "logged") =>
              \E n \in 0..(Len(pBulk[c][k]) - 1) :
                  db' = Presented(db, SubSeq(pBulk[c][k], 1, n)).db

C20_AppendOrder == []C20_OrderInv /\ [][C20_OrderStep]_vars

\* a one-to-many insert of four entities of two documents each on two
\* threads: the command of the first partition lists documents 1, 2 of
\* position 0, then 1, 2 of position 1; the second partition was applied
\* before the first was submitted
C20_Witness ==
    /\ request[1].kind = "InsertMany"
    /\ Len(partitions[1]) = 2
    /\ BulkBuilt(1, 1)
    /\ [j \in 1..Len(pBulk[1][1]) |-> <<pBulk[1][1][j].doc.index, pBulk[1][1][j].doc.n>>]
          = <<(<<0, 1>>), (<<0, 2>>), (<<1, 1>>), (<<1, 2>>)>>
    /\ execTask[1][2] = "done"
    /\ execTask[1][1] = "queued"

\* C21: a promise that holds an exception belongs to a partition for which
\* CATAPULT_LOG(fatal) was issued with the same diagnostic, and the log was
\* issued before: in the step that sets the exception the log is already
\* there; a log once issued stays.
C21_LoggedInv ==
    \A c \in Calls : \A k \in Parts(c) :
        /\ (pPromise[c][k].state = "exception" =>
              /\ fatalLog[c][k] # <<>>
              /\ pPromise[c][k].what = fatalLog[c][k])
        /\ (execTask[c][k] \in {"logged", "failed"} <=> fatalLog[c][k] # <<>>)

C21_LoggedStep ==
    \A c \in Calls : \A k \in Parts(c) :
        /\ (pPromise[c][k].state # "exception" /\ pPromise'[c][k].state = "exception") =>
              /\ fatalLog[c][k] # <<>>
              /\ fatalLog'[c][k] = fatalLog[c][k]
              /\ pPromise'[c][k].what = fatalLog[c][k]
        /\ (fatalLog[c][k] # <<>> => fatalLog'[c][k] = fatalLog[c][k])
        /\ (fatalLog[c][k] = <<>> /\ fatalLog'[c][k] # <<>>) =>
              pPromise'[c][k].state = "pending"

C21_LoggedBeforeSurfaced == []C21_LoggedInv /\ [][C21_LoggedStep]_vars

\* a partition failed with a server error: the diagnostic with message and
\* description is in the fatal log and in the exception of its future
C21_Witness ==
    \E c \in Calls : \E k \in Parts(c) :
        /\ pPromise[c][k].state = "exception"
        /\ Len(fatalLog[c][k]) = 4
        /\ pPromise[c][k].what = fatalLog[c][k]

\* C22: a connection is taken in acquire() only and given back in the step
\* that leaves collection.bulk_write, on success and on failure alike; no
\* other step changes the pool; the connections out are as many as the
\* executors holding one; once no task of any call is left, all connections
\* of the pool are free.
C22_ReleaseInv ==
    /\ m_connectionPool >= 0
    /\ m_connectionPool <= poolSize
    /\ poolSize - m_connectionPool = Cardinality(Holding)
    /\ (~InFlight => m_connectionPool = poolSize)

C22_ReleaseStep ==
    LET acquired == {t \in Calls \X (1..MaxLen) :
                        /\ t[2] \in Parts(t[1])
                        /\ execTask[t[1]][t[2]] = "acquiring"
                        /\ execTask'[t[1]][t[2]] = "holding"}
        released == {t \in Holding : execTask'[t[1]][t[2]] \in {"done", "logged"}}
    IN /\ m_connectionPool' = (m_connectionPool - Cardinality(acquired))
                                  + Cardinality(released)
       /\ \A t \in Holding : execTask'[t[1]][t[2]] \in {"holding", "done", "logged"}
       /\ Cardinality(acquired) + Cardinality(released) <= 1

C22_ConnectionsReleased == []C22_ReleaseInv /\ [][C22_ReleaseStep]_vars

\* two calls have ended, a partition failed after holding a connection, and
\* every connection is back in the pool
C22_Witness ==
    /\ \A c \in Calls : NonEmptyCall(c)
    /\ ~InFlight
    /\ \E c \in Calls : \E k \in Parts(c) : execTask[c][k] = "failed"
    /\ \E c \in Calls : \E k \in Parts(c) : execTask[c][k] = "done"
    /\ poolSize = MaxPool
    /\ m_connectionPool = poolSize

\* C23: calls issued concurrently on one engine do not interfere. Each call
\* has a result array of its own with one slot per partition of that call;
\* a step of a task of one call changes the array, the partitions, the
\* tasks, the promises and the handle of that call only; a slot of the array
\* of a call holds the future of the partition of that call with that batch
\* index; a ready handle delivers one outcome per partition of its call,
\* each the outcome of the command built from that partition.
CallState(c) ==
    <<request[c], partitions[c], m_futures[c], buildTask[c], pBulk[c], execTask[c],
      pPromise[c], remaining[c], handle[c], fatalLog[c]>>

Delivered(c) == [s \in 1..Len(m_futures[c]) |-> pPromise[c][m_futures[c][s]]]

C23_OwnInv ==
    \A c \in Calls :
        /\ (~NonEmptyCall(c) => m_futures[c] = <<>> /\ partitions[c] = <<>>)
        /\ NonEmptyCall(c) =>
              /\ Len(m_futures[c]) = Len(partitions[c])
              /\ Len(partitions[c]) = Min(Len(request[c].entities), numThreads)
              /\ DOMAIN pPromise[c] = Parts(c)
              /\ \A s \in 1..Len(m_futures[c]) :
                    m_futures[c][s] # 0 =>
                        /\ m_futures[c][s] \in Parts(c)
                        /\ partitions[c][m_futures[c][s]].batchIndex = s - 1
                        /\ buildTask[c][m_futures[c][s]] = "done"
              /\ \A k \in Parts(c) :
                    pPromise[c][k].state = "value" /\ request[c].kind = "InsertOne" =>
                        pPromise[c][k].result.NumInserted = partitions[c][k].size
              /\ handle[c] = "ready" =>
                    /\ \A s \in 1..Len(m_futures[c]) : m_futures[c][s] # 0
                    /\ Len(Delivered(c)) = Len(partitions[c])
                    /\ Delivered(c) = pPromise[c]
                    /\ AllResolved(c)

C23_OwnStep ==
    /\ \A a \in Calls : \A b \in Calls \ {a} :
          CallState(a)' = CallState(a) \/ CallState(b)' = CallState(b)
    /\ \A c \in Calls :
          m_futures'[c] # m_futures[c] =>
              \/ ~Issued(c) /\ request'[c] # NoRequest
              \/ \E k \in Parts(c) :
                    /\ buildTask[c][k] = "dispatching"
                    /\ buildTask'[c][k] = "done"
    /\ \A c \in Calls :
          (handle[c] = "pending" /\ handle'[c] = "ready") =>
              \A b \in Calls \ {c} : CallState(b)' = CallState(b)

C23_CallsIndependent == []C23_OwnInv /\ [][C23_OwnStep]_vars

\* two calls are in flight at the same time on two worker threads: the
\* second call, of one partition, is ready with its one outcome while the
\* first call, of two partitions, has one partition executed and one not
C23_Witness ==
    /\ numThreads = 2
    /\ Len(partitions[1]) = 2
    /\ Len(partitions[2]) = 1
    /\ handle[2] = "ready"
    /\ Len(Delivered(2)) = 1
    /\ handle[1] = "pending"
    /\ \E k \in Parts(1) : IsReady(pPromise[1][k])
    /\ \E k \in Parts(1) : execTask[1][k] = "none"

====
